---- MODULE Spec2Model ----
(***************************************************************************)
(* Model of src/src/agents/base_agent.py: class BaseAgent.                 *)
(*                                                                         *)
(* The agent owns a Python list `history` of dict objects.  Python lists   *)
(* hold references, so the model keeps a heap of the dict objects that are *)
(* alive and lets `history` (and the list get_history hands out) be        *)
(* sequences of references into that heap.                                 *)
(*                                                                         *)
(* process() is a coroutine: it can be suspended at each `await`           *)
(* (lines 104, 105, 108).  The base extraction stubs return without        *)
(* suspending, so a call is modelled in two segments: up to its suspension *)
(* in the subclass's code, and from its resumption to its return.  Several *)
(* calls may be in flight at once.                                         *)
(*                                                                         *)
(* Errors are instances of Exception (what `except Exception` at line 115  *)
(* is written for); cancellation and interpreter exit are not modelled.    *)
(***************************************************************************)
EXTENDS Integers, Sequences, FiniteSets, TLC

\* ------------------------------------------------------------------ bounds
\* Total number of process() calls made on the agent in one behaviour.
MaxCalls == 2
\* Number of mutations the caller performs on a value get_history returned.
MaxEdits == 1

\* ------------------------------------------------------------------ inputs
\* Messages passed to process(); the empty string is accepted (no validation).
Messages == {"", "I want to take leave"}
\* The optional `context` argument of process().
Contexts == {[kind |-> "None"], [kind |-> "dict", items |-> <<>>]}
\* Instants the wall clock shows, in seconds after the start.
Instants == {0, 1}
\* Exceptions the subclass's code may raise: class and args tuple.
Errors == {[cls |-> "Exception", args |-> <<>>],
           [cls |-> "ValueError", args |-> <<"boom">>]}
NoError == [cls |-> "", args |-> <<>>]
\* Tool names given to invoke_tool.
ToolNames == {"calendar", ""}
\* The `config` argument of the constructor.
Configs == {[has_deployment |-> FALSE, deployment_name |-> ""],
            [has_deployment |-> TRUE, deployment_name |-> "gpt-35"]}

\* ------------------------------------------------------------ Python values
NoneValue == [kind |-> "None"]
Suspended == [kind |-> "suspended"]
StrValue(s) == [kind |-> "str", s |-> s]
ListValue(xs) == [kind |-> "list", items |-> xs]
EmptyDict == [kind |-> "dict", items |-> <<>>]

\* str(e) for an exception built with zero or one string argument.
PyStr(e) == IF Len(e.args) = 0 THEN "" ELSE e.args[1]

VARIABLES
    agent,      \* name, description, system_prompt, config, kernel, context
    heap,       \* the dict objects alive; a reference is an index
    history,    \* self.history: sequence of references
    started,    \* number of process() calls made so far
    calls,      \* frames of the process() calls in flight
    ret,        \* the operation that ran last, what it returned, and (for
                \* process) the frame of the call as it returned
    now,        \* the UTC wall clock
    edits,      \* number of caller mutations so far
    succeeded,  \* process calls that returned the hook's value since the last clear
    failed,     \* process calls that took the except path since the last clear
    dirty       \* clear_history ran while a call was in flight, no clean clear since

vars == <<agent, heap, history, started, calls, ret, now, edits, succeeded, failed, dirty>>

\* ---------------------------------------------------------------- helpers
\* The conversation as a reader of a list of turns sees it.
Deref(refs) == [i \in 1..Len(refs) |-> heap[refs[i]]]
View == Deref(history)

NoCall == [id |-> 0, pc |-> "", message |-> "", context |-> NoneValue, intent |-> "",
           entities |-> NoneValue, result |-> "", error |-> NoError,
           userRef |-> 0, asstRef |-> 0, h0 |-> <<>>, solo |-> FALSE]
Returned(op, frame, v) == [op |-> op, call |-> frame, value |-> v]

\* ------------------------------------------------------------ construction
\* Lines 67-85: the chat service is built from config, with defaults.
initialize_kernel(config) ==
    [deployment_name |-> IF config.has_deployment THEN config.deployment_name ELSE "gpt-4",
     endpoint |-> NoneValue,
     api_key |-> NoneValue]

Init ==
    /\ \E cfg \in Configs :
         agent = [name |-> "leave", description |-> "Leave management",
                  system_prompt |-> "You are an HR agent", config |-> cfg,
                  kernel |-> initialize_kernel(cfg), context |-> NoneValue]
    /\ heap = <<>>
    /\ history = <<>>
    /\ started = 0
    /\ calls = {}
    /\ ret = Returned("__init__", NoCall, NoneValue)
    /\ now = 0
    /\ edits = 0
    /\ succeeded = 0
    /\ failed = 0
    /\ dirty = FALSE

\* ------------------------------------------------------------ _add_to_history
\* datetime.isoformat() of the instant `t` seconds after the start.
IsoFormat(t) == "2024-01-01T00:00:0" \o ToString(t)

add_to_history_front(role, content) ==
    /\ heap' = Append(heap, [role |-> role, content |-> content,
                             timestamp |-> IsoFormat(now)])
    /\ history' = <<Len(heap) + 1>> \o history

add_to_history_swapped(role, content) ==
    /\ heap' = Append(heap, [role |-> content, content |-> role,
                             timestamp |-> IsoFormat(now)])
    /\ history' = Append(history, Len(heap) + 1)

add_to_history(role, content) ==
    /\ heap' = Append(heap, [role |-> role, content |-> content,
                             timestamp |-> IsoFormat(now)])
    /\ history' = Append(history, Len(heap) + 1)

\* ------------------------------------------------------------------ process
\* The abstract hook _execute: a subclass returns some reply for the message.
HookReturns(message) == {"Echo: " \o message, "Approved"}

\* Base _extract_intent: a constant.
ExtractIntent(message) == "general_query"

\* Base _extract_entities: an empty dict.
ExtractEntities(message) == EmptyDict

\* The frame of a call suspended in the subclass's code: its arguments and
\* locals, the turn it recorded, and the conversation it found on entry.
NewCall(m, ctx) ==
    [id |-> started + 1, pc |-> "execute", message |-> m, context |-> ctx,
     intent |-> ExtractIntent(m), entities |-> ExtractEntities(m),
     result |-> "", error |-> NoError,
     userRef |-> Len(heap) + 1, asstRef |-> 0,
     h0 |-> View, solo |-> calls = {}]

\* Calls in flight lose `solo` when another operation touches history.
Disturbed == {[f EXCEPT !.solo = FALSE] : f \in calls}

process_begin_locked(m, ctx) ==
    /\ started < MaxCalls
    /\ calls = {}
    /\ add_to_history("user", m)
    /\ started' = started + 1
    /\ calls' = Disturbed \cup {NewCall(m, ctx)}
    /\ ret' = Returned("process", NewCall(m, ctx), Suspended)
    /\ UNCHANGED <<agent, now, edits, succeeded, failed, dirty>>

\* Lines 97-108 up to the suspension in the hook: log, record the user turn,
\* run the extraction stubs, enter the hook.
process_begin(m, ctx) ==
    /\ started < MaxCalls
    /\ add_to_history("user", m)
    /\ started' = started + 1
    /\ calls' = Disturbed \cup {NewCall(m, ctx)}
    /\ ret' = Returned("process", NewCall(m, ctx), Suspended)
    /\ UNCHANGED <<agent, now, edits, succeeded, failed, dirty>>

ErrorReplyBare(e) == PyStr(e)

\* Line 117: f"I encountered an error: {str(e)}".
ErrorReply(e) == "I encountered an error: " \o PyStr(e)

process_except_records(f, e) ==
    /\ add_to_history("assistant", ErrorReply(e))
    /\ ret' = Returned("process",
                       [f EXCEPT !.pc = "done", !.error = e, !.result = ErrorReply(e),
                                 !.asstRef = Len(heap) + 1],
                       StrValue(ErrorReply(e)))

process_except_reraise(f, e) ==
    /\ ret' = Returned("process", [f EXCEPT !.pc = "raised", !.error = e], NoneValue)
    /\ UNCHANGED <<heap, history>>

\* Lines 115-117: catch, log, return the error text.  History is not touched.
process_except(f, e) ==
    /\ ret' = Returned("process",
                       [f EXCEPT !.pc = "done", !.error = e, !.result = ErrorReply(e)],
                       StrValue(ErrorReply(e)))
    /\ UNCHANGED <<heap, history>>

\* The subclass's code that the call with frame f awaits (the hook, or an
\* override of an extraction stub running ahead of it) raises e.
process_raises(f, e) ==
    /\ f \in calls
    /\ process_except(f, e)
    /\ calls' = calls \ {f}
    /\ failed' = failed + 1
    /\ UNCHANGED <<agent, started, now, edits, succeeded, dirty>>

process_finish_silent(f, r) ==
    /\ f \in calls
    /\ r \in HookReturns(f.message)
    /\ ret' = Returned("process", [f EXCEPT !.pc = "done", !.result = r], StrValue(r))
    /\ calls' = calls \ {f}
    /\ succeeded' = succeeded + 1
    /\ UNCHANGED <<agent, heap, history, started, now, edits, failed, dirty>>

\* Lines 108-113: the hook returns r; record the assistant turn; return r.
process_finish(f, r) ==
    /\ f \in calls
    /\ r \in HookReturns(f.message)
    /\ add_to_history("assistant", r)
    /\ ret' = Returned("process",
                       [f EXCEPT !.pc = "done", !.result = r, !.asstRef = Len(heap) + 1],
                       StrValue(r))
    /\ calls' = calls \ {f}
    /\ succeeded' = succeeded + 1
    /\ UNCHANGED <<agent, started, now, edits, failed, dirty>>

\* ------------------------------------------------------- other operations
\* Line 187: a new list holding the same dict objects.
get_history ==
    /\ ret' = Returned("get_history", NoCall, ListValue(history))
    /\ UNCHANGED <<agent, heap, history, started, calls, now, edits, succeeded, failed, dirty>>

clear_history_keep_first ==
    /\ history' = IF history = <<>> THEN <<>> ELSE <<1>>
    /\ heap' = IF history = <<>> THEN <<>> ELSE <<heap[history[1]]>>
    /\ calls' = Disturbed
    /\ ret' = Returned("clear_history", NoCall, NoneValue)
    /\ succeeded' = 0
    /\ failed' = 0
    /\ dirty' = (calls # {})
    /\ UNCHANGED <<agent, started, now, edits>>

\* Lines 189-192.  The dicts history held are no longer referenced by the
\* agent and are freed.
clear_history ==
    /\ history' = <<>>
    /\ heap' = <<>>
    /\ calls' = Disturbed
    /\ ret' = Returned("clear_history", NoCall, NoneValue)
    /\ succeeded' = 0
    /\ failed' = 0
    /\ dirty' = (calls # {})
    /\ UNCHANGED <<agent, started, now, edits>>

invoke_tool_logs(tool_name) ==
    /\ add_to_history("tool", tool_name)
    /\ ret' = Returned("invoke_tool", NoCall, NoneValue)
    /\ UNCHANGED <<agent, started, calls, now, edits, succeeded, failed, dirty>>

\* Lines 194-206.
invoke_tool(tool_name) ==
    /\ ret' = Returned("invoke_tool", NoCall, NoneValue)
    /\ UNCHANGED <<agent, heap, history, started, calls, now, edits, succeeded, failed, dirty>>

\* Lines 208-219.
get_capabilities ==
    /\ ret' = Returned("get_capabilities", NoCall,
                       ListValue(<<agent.description, "Natural language understanding",
                                   "Context-aware responses", "Multi-turn conversations">>))
    /\ UNCHANGED <<agent, heap, history, started, calls, now, edits, succeeded, failed, dirty>>

\* Wall-clock time passes (datetime.utcnow(), line 178, reads it).
tick ==
    /\ now + 1 \in Instants
    /\ now' = now + 1
    /\ ret' = Returned("tick", NoCall, NoneValue)
    /\ UNCHANGED <<agent, heap, history, started, calls, edits, succeeded, failed, dirty>>

\* ------------------------------------------- the caller and the returned list
\* The caller still holds the list get_history just gave it.
Held == ret.op \in {"get_history", "caller"} /\ ret.value.kind = "list"

\* The caller appends to the list it was given (here: one of the dicts again).
caller_append ==
    /\ Held
    /\ edits < MaxEdits
    /\ ret.value.items # <<>>
    /\ ret' = Returned("caller", NoCall,
                       ListValue(Append(ret.value.items, ret.value.items[1])))
    /\ edits' = edits + 1
    /\ UNCHANGED <<agent, heap, history, started, calls, now, succeeded, failed, dirty>>

\* The caller removes the last element of the list it was given.
caller_pop ==
    /\ Held
    /\ edits < MaxEdits
    /\ ret.value.items # <<>>
    /\ ret' = Returned("caller", NoCall,
                       ListValue(SubSeq(ret.value.items, 1, Len(ret.value.items) - 1)))
    /\ edits' = edits + 1
    /\ UNCHANGED <<agent, heap, history, started, calls, now, succeeded, failed, dirty>>

\* The caller reverses the list it was given.
caller_reverse ==
    /\ Held
    /\ edits < MaxEdits
    /\ Len(ret.value.items) > 1
    /\ ret' = Returned("caller", NoCall,
                       ListValue([i \in 1..Len(ret.value.items) |->
                                     ret.value.items[Len(ret.value.items) + 1 - i]]))
    /\ edits' = edits + 1
    /\ UNCHANGED <<agent, heap, history, started, calls, now, succeeded, failed, dirty>>

\* The caller assigns to a key of a dict it reached through the list.
caller_edit(i, key) ==
    /\ Held
    /\ edits < MaxEdits
    /\ i \in 1..Len(ret.value.items)
    /\ heap' = [heap EXCEPT ![ret.value.items[i]] =
                  CASE key = "role" -> [@ EXCEPT !.role = "system"]
                    [] key = "content" -> [@ EXCEPT !.content = "tampered"]
                    [] key = "timestamp" -> [@ EXCEPT !.timestamp = "1970-01-01T00:00:00"]]
    /\ ret' = Returned("caller", NoCall, ret.value)
    /\ edits' = edits + 1
    /\ UNCHANGED <<agent, history, started, calls, now, succeeded, failed, dirty>>

\* ------------------------------------------------------------ specifications
Next ==
    \/ \E m \in Messages, ctx \in Contexts : process_begin(m, ctx)
    \/ \E f \in calls, e \in Errors : process_raises(f, e)
    \/ \E f \in calls : \E r \in HookReturns(f.message) : process_finish(f, r)
    \/ get_history
    \/ clear_history
    \/ \E tool \in ToolNames : invoke_tool(tool)
    \/ get_capabilities
    \/ tick

CallerNext ==
    \/ Next /\ edits' = edits
    \/ caller_append
    \/ caller_pop
    \/ caller_reverse
    \/ \E i \in 1..(2 * MaxCalls), key \in {"role", "content", "timestamp"} :
          caller_edit(i, key)

\* The agent's operations alone: nothing outside the agent writes to history.
Spec == Init /\ [][Next]_vars

\* The agent's operations together with a caller that mutates the list
\* get_history returned to it.
SpecCaller == Init /\ [][CallerNext]_vars

\* ================================================================= claims
\* A process() call has just returned to its caller.
JustReturned == ret.op = "process" /\ ret.call.pc # "execute"
\* ... by returning the hook's value / through the except path.
JustSucceeded == JustReturned /\ ret.call.pc = "done" /\ ret.call.error = NoError
JustFailed == JustReturned /\ ret.call.error # NoError
\* Number of turns with the given role among the first k of the conversation.
CountRole(role, k) == Cardinality({i \in 1..k : View[i].role = role})

\* C1: a process(m) call that ran with no other call or clear alongside it
\* and in which nothing raised leaves the conversation equal to what it
\* found on entry followed by exactly two turns, user(m) then assistant(r),
\* where r is the string returned and is a value the hook produced.
C1_SuccessAppendsUserThenAssistant ==
    (JustSucceeded /\ ret.call.solo) =>
        /\ Len(View) = Len(ret.call.h0) + 2
        /\ SubSeq(View, 1, Len(ret.call.h0)) = ret.call.h0
        /\ View[Len(View) - 1].role = "user"
        /\ View[Len(View) - 1].content = ret.call.message
        /\ View[Len(View)].role = "assistant"
        /\ ret.value = StrValue(View[Len(View)].content)
        /\ ret.value.s \in HookReturns(ret.call.message)
        /\ history = [i \in 1..Len(history) |->
                         IF i = Len(history) - 1 THEN ret.call.userRef
                         ELSE IF i = Len(history) THEN ret.call.asstRef
                         ELSE history[i]]

\* C1 witness: the echo scenario on a fresh agent.
C1_Witness ==
    /\ JustSucceeded /\ ret.call.solo
    /\ ret.value = StrValue("Echo: I want to take leave")
    /\ Len(View) = 2
    /\ View[1].role = "user" /\ View[1].content = "I want to take leave"
    /\ View[2].role = "assistant" /\ View[2].content = "Echo: I want to take leave"

C3_ProcessNeverRaises ==
    JustReturned =>
        /\ ret.call.pc = "done"
        /\ ret.value.kind = "str"
        /\ ret.call.error # NoError =>
              /\ ret.call.error.args = <<>> => ret.value.s = "I encountered an error: "
              /\ ret.call.error.args = <<"boom">> =>
                    ret.value.s = "I encountered an error: boom"
              /\ Len(ret.call.error.args) = 1 =>
                    ret.value.s = "I encountered an error: " \o ret.call.error.args[1]

\* C3 witness: a call whose hook raised 'boom' while another call was in flight.
C3_Witness ==
    /\ JustFailed
    /\ ret.call.error = [cls |-> "ValueError", args |-> <<"boom">>]
    /\ ret.value = StrValue("I encountered an error: boom")
    /\ calls # {}

\* C4: a call in which the hook fails appends exactly one turn, the user
\* turn for m, and no assistant turn; run on a conversation of even length
\* it leaves one of odd length whose last turn has role 'user'.
C4_FailureAppendsOnlyUserTurn ==
    (JustFailed /\ ret.call.solo) =>
        /\ Len(View) = Len(ret.call.h0) + 1
        /\ SubSeq(View, 1, Len(ret.call.h0)) = ret.call.h0
        /\ history[Len(history)] = ret.call.userRef
        /\ View[Len(View)] = [role |-> "user", content |-> ret.call.message,
                              timestamp |-> View[Len(View)].timestamp]
        /\ ret.call.asstRef = 0
        /\ \A i \in (Len(ret.call.h0) + 1)..Len(View) : View[i].role # "assistant"
        /\ Len(ret.call.h0) % 2 = 0 => Len(View) % 2 = 1

\* C4 witness: the hook fails on a fresh agent; history is one user turn.
C4_Witness ==
    /\ JustFailed /\ ret.call.solo
    /\ ret.call.h0 = <<>>
    /\ Len(View) = 1
    /\ View[1].role = "user"

\* C5: history is empty right after clear_history; and n successful calls,
\* counted from construction or from a clear made with no call in flight,
\* with no failed call and none still running, leave history 2n long.
C5_LengthIsTwiceSuccesses ==
    /\ ret.op = "clear_history" => history = <<>> /\ View = <<>>
    /\ ret.op = "__init__" => history = <<>> /\ succeeded = 0
    /\ (~dirty /\ failed = 0 /\ calls = {}) => Len(history) = 2 * succeeded

\* C5 witness: two calls were made, the first was cleared away, the second
\* succeeded afterwards: n = 1 counted from the clear.
C5_Witness ==
    /\ started = 2 /\ calls = {} /\ ~dirty /\ failed = 0
    /\ succeeded = 1
    /\ Len(history) = 2

\* C6 as stated: nothing the caller does to the returned list, or to a turn
\* reached through it, changes the conversation the agent holds.
C6_ReturnedCopyIsolated == [][ret'.op = "caller" => View' = View]_vars

\* C7: a step of any operation other than clear_history keeps the
\* conversation so far as a prefix of the conversation afterwards.
C7_AppendOnly ==
    [][ret'.op # "clear_history" =>
          /\ Len(View') >= Len(View)
          /\ SubSeq(View', 1, Len(View)) = View
          /\ SubSeq(history', 1, Len(history)) = history]_vars

\* C7 witness: a second call has begun after a completed one.
C7_Witness ==
    /\ Len(View) = 3
    /\ View[2].role = "assistant"
    /\ View[3].role = "user"
    /\ ret.op = "get_capabilities"

\* C8: invoke_tool, get_history and get_capabilities are always possible,
\* change nothing of the agent, and invoke_tool returns None; the base
\* extraction stubs yield 'general_query' and an empty dict for every
\* message.
C8_PureOperations ==
    /\ [](/\ ENABLED get_history
          /\ ENABLED get_capabilities
          /\ \A tool \in ToolNames : ENABLED invoke_tool(tool))
    /\ [][/\ ret'.op \in {"invoke_tool", "get_history", "get_capabilities"} =>
                /\ UNCHANGED <<agent, heap, history, started, calls>>
                /\ View' = View
                /\ ret'.op = "invoke_tool" => ret'.value = NoneValue
                /\ ret'.op = "get_history" => Deref(ret'.value.items) = View
          /\ \A f \in calls' : f.intent = "general_query" /\ f.entities = EmptyDict
          /\ \A m \in Messages :
                ExtractIntent(m) = "general_query" /\ ExtractEntities(m).items = <<>>]_vars

\* C8 witness: invoke_tool has just run while a call is in flight.
C8_Witness ==
    /\ ret.op = "invoke_tool"
    /\ ret.value = NoneValue
    /\ calls # {}
    /\ history # <<>>

\* C9: nothing serialises process() calls: while calls are suspended in the
\* hook a further call can begin, and any suspended call can be the next to
\* record its reply, whatever the order in which the calls began.
C9_NoMutualExclusion ==
    \A f \in calls :
        /\ started < MaxCalls =>
              ENABLED (\E m \in Messages, ctx \in Contexts : process_begin(m, ctx))
        /\ ENABLED (\E r \in HookReturns(f.message) : process_finish(f, r))
        /\ ENABLED (\E e \in Errors : process_raises(f, e))

\* C9 witness: user(m1), user(m2), assistant(r2), assistant(r1): the reply
\* of the second call was recorded before the reply of the first.
C9_Witness ==
    /\ JustSucceeded
    /\ ret.call.id = 1
    /\ history = <<1, 2, 3, 4>>
    /\ ret.call.userRef = 1 /\ ret.call.asstRef = 4
    /\ View[1].role = "user" /\ View[2].role = "user"
    /\ View[3].role = "assistant" /\ View[4].role = "assistant"
    /\ View[1].content = "" /\ View[2].content = "I want to take leave"
    /\ View[3].content = "Echo: I want to take leave" /\ View[4].content = "Echo: "

\* C10: unless clear_history ran while a call was in flight, every prefix
\* of the conversation has at least as many user turns as assistant turns,
\* a non-empty conversation starts with a user turn, a call's assistant
\* turn comes after its own user turn, and user turns exceed assistant
\* turns by the number of failed calls plus the number of calls in flight.
C10_UserTurnsLeadAssistantTurns ==
    ~dirty =>
        /\ \A k \in 0..Len(View) : CountRole("user", k) >= CountRole("assistant", k)
        /\ \A i \in 1..Len(View) : View[i].role \in {"user", "assistant"}
        /\ View # <<>> => View[1].role = "user"
        /\ (JustReturned /\ ret.call.asstRef # 0) =>
              \E p, q \in 1..Len(history) :
                  /\ p < q
                  /\ history[p] = ret.call.userRef /\ history[q] = ret.call.asstRef
                  /\ View[p].role = "user" /\ View[p].content = ret.call.message
                  /\ View[q].role = "assistant" /\ View[q].content = ret.call.result
        /\ CountRole("user", Len(View)) - CountRole("assistant", Len(View))
              = failed + Cardinality(calls)

\* C10 witness: one call failed, another is in flight: two user turns ahead.
C10_Witness ==
    /\ ~dirty
    /\ failed = 1
    /\ Cardinality(calls) = 1
    /\ Len(View) = 2
    /\ CountRole("user", 2) = 2

====
